---- MODULE Spec2Model ----
(***************************************************************************)
(* Redmine checklist: the ticket store, its CSV persistence, the feed      *)
(* merge and the polling timer of MainWindow.                              *)
(*                                                                         *)
(* A Python str is a sequence of symbols: one-character strings, plus      *)
(* opaque multi-character tokens for texts the program never looks into    *)
(* (a timestamp, a URL).  The empty str is <<>>.  An optional value is     *)
(* None (<<>>) or Some(x) (<<x>>).  A Python dict is the sequence of its   *)
(* <<key, value>> pairs in insertion order.                                *)
(***************************************************************************)
EXTENDS Integers, Sequences, FiniteSets, TLC

VARIABLES
    tickets,          \* MainWindow.tickets: dict ticket_id -> Ticket, as the sequence of its items
    csv_file,         \* the file at DATA_PATH: [exists, header, rows]
    config,           \* MainWindow.config
    sync_running,     \* MainWindow.sync_running
    sync_timer,       \* MainWindow.sync_timer: [active, interval]
    next_sync_at,     \* MainWindow.next_sync_at: None or Some(delay_ms), the delay added to now()
    countdown_active, \* MainWindow.countdown_timer.isActive()
    stack,            \* sync_now calls blocked in a modal dialog, innermost last
    launched,         \* FALSE until the QTimer.singleShot(0, start_sync) of __init__ has fired
    ops,              \* number of user, timer and dialog events handled so far
    timeouts,         \* number of timeouts of sync_timer delivered so far, modulo 2
    tray,             \* MainWindow.tray is not None: init_tray found a system tray
    ev                \* the last handler that ran, and what it did

vars == <<tickets, csv_file, config, sync_running, sync_timer, next_sync_at,
          countdown_active, stack, launched, ops, timeouts, tray, ev>>

-----------------------------------------------------------------------------
(* Bounds of the model *)

MaxOps == 2      \* user and timer events handled after the launch
MaxClock == 1    \* distinct values of datetime.now()

-----------------------------------------------------------------------------
(* Python values *)

None == <<>>
Some(x) == <<x>>
Truthy(s) == s # <<>>
Or(a, b) == IF Truthy(a) THEN a ELSE b

Min(S) == CHOOSE x \in S : \A y \in S : x <= y
Range(s) == {s[i] : i \in 1..Len(s)}

DQ == "\""
True == <<"True">>
False == <<"False">>
str_bool_lower(b) == IF b THEN <<"true">> ELSE <<"false">>
str_bool(b) == IF b THEN True ELSE False

LowerChar(c) ==
    CASE c = "A" -> "a"
      [] c = "B" -> "b"
      [] c = "C" -> "c"
      [] c = "P" -> "p"
      [] OTHER -> c

lower(s) == IF s = <<>> THEN <<>> ELSE [i \in 1..Len(s) |-> LowerChar(s[i])]

RECURSIVE lstrip(_)
lstrip(s) == IF s # <<>> /\ Head(s) = " " THEN lstrip(Tail(s)) ELSE s

RECURSIVE rstrip(_)
rstrip(s) == IF s # <<>> /\ s[Len(s)] = " " THEN rstrip(SubSeq(s, 1, Len(s) - 1)) ELSE s

strip(s) == rstrip(lstrip(s))

RECURSIVE split(_, _)
split(s, sep) ==
    LET at == {i \in 1..Len(s) : s[i] = sep} IN
    IF at = {} THEN <<s>>
    ELSE <<SubSeq(s, 1, Min(at) - 1)>> \o split(SubSeq(s, Min(at) + 1, Len(s)), sep)

contains(hay, needle) ==
    \E i \in 1..(Len(hay) - Len(needle) + 1) : SubSeq(hay, i, i + Len(needle) - 1) = needle

(* dict operations on a sequence of <<key, value>> pairs *)
dict_has(d, k) == \E i \in 1..Len(d) : d[i][1] = k
dict_index(d, k) == CHOOSE i \in 1..Len(d) : d[i][1] = k
dict_get(d, k, default) == IF dict_has(d, k) THEN d[dict_index(d, k)][2] ELSE default
dict_put(d, k, v) ==
    IF dict_has(d, k) THEN [d EXCEPT ![dict_index(d, k)] = <<k, v>>]
    ELSE Append(d, <<k, v>>)

(* json.dumps(d, ensure_ascii=False) of a dict of str to str *)
json_quote(s) == <<DQ>> \o s \o <<DQ>>

RECURSIVE json_items(_)
json_items(d) ==
    IF d = <<>> THEN <<>>
    ELSE json_quote(d[1][1]) \o <<":", " ">> \o json_quote(d[1][2])
         \o (IF Len(d) > 1 THEN <<",", " ">> \o json_items(Tail(d)) ELSE <<>>)

json_dumps(d) == <<"{">> \o json_items(d) \o <<"}">>

(* json.loads of an object of strings; ok = FALSE where json.loads raises *)
JsonFail == [ok |-> FALSE, val |-> <<>>, next |-> 0]

RECURSIVE skip_ws(_, _)
skip_ws(s, i) == IF i <= Len(s) /\ s[i] = " " THEN skip_ws(s, i + 1) ELSE i

read_string(s, i) ==
    IF i > Len(s) \/ s[i] # DQ THEN JsonFail
    ELSE LET close == {j \in (i + 1)..Len(s) : s[j] = DQ} IN
         IF close = {} THEN JsonFail
         ELSE [ok |-> TRUE, val |-> SubSeq(s, i + 1, Min(close) - 1), next |-> Min(close) + 1]

RECURSIVE read_members(_, _, _)
read_members(s, i, acc) ==
    LET k == read_string(s, skip_ws(s, i))
        colon == skip_ws(s, k.next)
        v == read_string(s, skip_ws(s, colon + 1))
        after == skip_ws(s, v.next)
    IN  IF ~k.ok \/ colon > Len(s) \/ s[colon] # ":" THEN JsonFail
        ELSE IF ~v.ok \/ after > Len(s) THEN JsonFail
        ELSE IF s[after] = "}" THEN
            [ok |-> skip_ws(s, after + 1) > Len(s), val |-> dict_put(acc, k.val, v.val), next |-> after + 1]
        ELSE IF s[after] = "," THEN read_members(s, after + 1, dict_put(acc, k.val, v.val))
        ELSE JsonFail

json_loads(s) ==
    LET open == skip_ws(s, 1) IN
    IF open > Len(s) \/ s[open] # "{" THEN JsonFail
    ELSE LET first == skip_ws(s, open + 1) IN
         IF first <= Len(s) /\ s[first] = "}" THEN
             [ok |-> skip_ws(s, first + 1) > Len(s), val |-> <<>>, next |-> first + 1]
         ELSE read_members(s, open + 1, <<>>)

-----------------------------------------------------------------------------
(* models.py *)

Ticket(ticket_id, subject, status, updated_on, due_date, description, custom_fields, url, feed_id, feed_title, feed_search, feed_search_custom, search_hit, done, done_at) ==
    [ticket_id |-> ticket_id, subject |-> subject, status |-> status,
     updated_on |-> updated_on, due_date |-> due_date, description |-> description,
     custom_fields |-> custom_fields, url |-> url, feed_id |-> feed_id,
     feed_title |-> feed_title, feed_search |-> feed_search,
     feed_search_custom |-> feed_search_custom, search_hit |-> search_hit,
     done |-> done, done_at |-> done_at]

IsDigit(c) == c \in {"0", "1", "2", "3", "4", "5", "6", "7", "8", "9"}

RECURSIVE digits_from(_, _)
digits_from(s, i) ==
    IF i <= Len(s) /\ IsDigit(s[i]) THEN <<s[i]>> \o digits_from(s, i + 1) ELSE <<>>

(* re.search(r"#(\d+)", s): None, or Some(group 1) of the leftmost match *)
search_hash_digits(s) ==
    LET at == {i \in 1..(Len(s) - 1) : s[i] = "#" /\ IsDigit(s[i + 1])} IN
    IF at = {} THEN None ELSE Some(digits_from(s, Min(at) + 1))

extract_ticket_id(entry, title_text) ==
    LET entry_id == entry.id
        m1 == search_hash_digits(entry_id)
        m2 == search_hash_digits(title_text)
    IN  IF m1 # None THEN m1[1]
        ELSE IF m2 # None THEN m2[1]
        ELSE Or(entry_id, Or(title_text, <<"unknown">>))

extract_subject(title_text) ==
    LET at == {i \in 1..(Len(title_text) - 1) : title_text[i] = ":" /\ title_text[i + 1] = " "} IN
    IF at # {} THEN SubSeq(title_text, Min(at) + 2, Len(title_text)) ELSE title_text

(* An Atom entry: the texts of atom:title, atom:updated, atom:id and atom:content,
   and the term attribute of atom:category (<<>> when absent or empty). *)
from_entry(entry, feed_id, feed_title, feed_search, search_hit) ==
    LET raw_title == strip(entry.title)
        updated == strip(entry.updated)
        entry_id == entry.id
        status == IF Truthy(entry.term) THEN entry.term ELSE <<"unknown">>
    IN  Ticket(extract_ticket_id(entry, raw_title), extract_subject(raw_title), status, updated,
               <<>>, <<>>, None, entry_id, feed_id, feed_title, feed_search, <<>>,
               search_hit, FALSE, None)

-----------------------------------------------------------------------------
(* storage.py *)

self_safe_load(value) ==
    IF ~Truthy(value) THEN <<>>
    ELSE IF json_loads(value).ok THEN json_loads(value).val ELSE <<>>

NoFile == [exists |-> FALSE, header |-> <<>>, rows |-> <<>>]

(* csv.DictReader: row.get(name, default) *)
row_get(header, row, name, default) ==
    IF \E i \in 1..Len(header) : header[i] = name
    THEN row[CHOOSE i \in 1..Len(header) : header[i] = name]
    ELSE default

load_row(header, row) ==
    Ticket(row_get(header, row, "ticket_id", <<>>),
           row_get(header, row, "subject", <<>>),
           row_get(header, row, "status", <<>>),
           row_get(header, row, "updated_on", <<>>),
           row_get(header, row, "due_date", <<>>),
           row_get(header, row, "description", <<>>),
           Some(self_safe_load(row_get(header, row, "custom_fields", <<>>))),
           row_get(header, row, "url", <<>>),
           row_get(header, row, "feed_id", <<>>),
           row_get(header, row, "feed_title", <<>>),
           row_get(header, row, "feed_search", <<>>),
           row_get(header, row, "feed_search_custom", <<>>),
           row_get(header, row, "search_hit", False) = True,
           row_get(header, row, "done", False) = True,
           IF Truthy(row_get(header, row, "done_at", <<>>))
           THEN Some(row_get(header, row, "done_at", <<>>)) ELSE None)

RECURSIVE load_rows(_, _, _)
load_rows(header, rows, acc) ==
    IF rows = <<>> THEN acc
    ELSE LET t == load_row(header, Head(rows)) IN
         load_rows(header, Tail(rows), dict_put(acc, t.ticket_id, t))

(* the dict load_csv returns, as the sequence of its <<ticket_id, Ticket>> items *)
load_csv(file) == IF ~file.exists THEN <<>> ELSE load_rows(file.header, file.rows, <<>>)

fieldnames ==
    <<"ticket_id", "subject", "status", "updated_on", "due_date", "description",
      "custom_fields", "url", "feed_id", "feed_title", "feed_search",
      "feed_search_custom", "search_hit", "done", "done_at">>

save_row_without_done_at(t) ==
    <<t.ticket_id, t.subject, t.status, t.updated_on, t.due_date, t.description,
      json_dumps(IF t.custom_fields = None THEN <<>> ELSE t.custom_fields[1]),
      t.url, t.feed_id, t.feed_title, t.feed_search, t.feed_search_custom,
      str_bool(t.search_hit), str_bool(t.done), <<>>>>

save_row(t) ==
    <<t.ticket_id, t.subject, t.status, t.updated_on, t.due_date, t.description,
      json_dumps(IF t.custom_fields = None THEN <<>> ELSE t.custom_fields[1]),
      t.url, t.feed_id, t.feed_title, t.feed_search, t.feed_search_custom,
      str_bool(t.search_hit), str_bool(t.done),
      IF t.done_at = None THEN <<>> ELSE t.done_at[1]>>

save_csv(tks) ==
    [exists |-> TRUE, header |-> fieldnames,
     rows |-> IF tks = <<>> THEN <<>> ELSE [i \in 1..Len(tks) |-> save_row(tks[i][2])]]

-----------------------------------------------------------------------------
(* config_manager.py *)

(* dict.get(key, default) on a dict modelled as a function with string keys *)
get(d, key, default) == IF key \in DOMAIN d THEN d[key] ELSE default

PLACEHOLDER_KEY == <<"PUT_YOUR_API_KEY">>

(* generate_feed_id: uuid4().hex is random, the caller draws it *)
Uuids == {<<"g1">>, <<"g2">>}
UuidSupplies == {<<a, b>> : a, b \in Uuids}

(* ensure_feed_ids(feeds): uuids[i] is the id generated for feeds[i] when it has none.
   The result is the new list when an id was added and the argument otherwise. *)
ensure_feed_ids(feeds, uuids) ==
    IF feeds = <<>> THEN feeds
    ELSE [i \in 1..Len(feeds) |->
            IF ~Truthy(get(feeds[i], "id", <<>>))
            THEN [k \in DOMAIN feeds[i] \cup {"id"} |-> IF k = "id" THEN uuids[i] ELSE feeds[i][k]]
            ELSE feeds[i]]

default_conf ==
    [api_key |-> PLACEHOLDER_KEY, refresh_minutes |-> 30,
     feeds |-> <<[title |-> <<"Demo feed">>, url |-> <<"https://redmine.example.com/projects/demo/issues.atom">>,
                  search |-> <<>>]>>,
     enable_api_details |-> FALSE]

(* load_config: disk is None when config.json does not exist, else Some(cfg) *)
load_config(disk, uuids) ==
    IF disk = None THEN default_conf
    ELSE LET cfg == disk[1] IN
         IF "feeds" \in DOMAIN cfg
         THEN [cfg EXCEPT !.feeds = ensure_feed_ids(cfg.feeds, uuids)]
         ELSE cfg

RECURSIVE select_with_url(_)
select_with_url(feeds) ==
    IF feeds = <<>> THEN <<>>
    ELSE LET f == Head(feeds)
             url == Or(get(f, "url", <<>>), get(f, "feed_url", <<>>))
         IN  (IF Truthy(url)
              THEN <<[id |-> get(f, "id", <<>>),
                      title |-> Or(get(f, "title", <<>>), Or(get(f, "name", <<>>), <<"feed">>)),
                      url |-> url,
                      search |-> get(f, "search", <<>>)]>>
              ELSE <<>>) \o select_with_url(Tail(feeds))

normalize_feeds(cfg, uuids) ==
    LET feeds == ensure_feed_ids(get(cfg, "feeds", <<>>), uuids)
        normed == select_with_url(feeds)
    IN  IF normed # <<>> THEN normed
        ELSE IF Truthy(get(cfg, "feed_url", <<>>))
        THEN <<[id |-> uuids[1], title |-> <<"default">>, url |-> cfg.feed_url, search |-> <<>>]>>
        ELSE <<>>

-----------------------------------------------------------------------------
(* feed_client.py *)

RECURSIVE strip_all(_)
strip_all(parts) == IF parts = <<>> THEN <<>> ELSE <<strip(Head(parts))>> \o strip_all(Tail(parts))

RECURSIVE lower_nonempty(_)
lower_nonempty(parts) ==
    IF parts = <<>> THEN <<>>
    ELSE (IF Truthy(Head(parts)) THEN <<lower(Head(parts))>> ELSE <<>>) \o lower_nonempty(Tail(parts))

_split_terms(search) ==
    IF ~Truthy(search) THEN <<>> ELSE lower_nonempty(strip_all(split(search, ",")))

entry_search_hit_title_only(entry, terms) ==
    /\ terms # <<>>
    /\ \E i \in 1..Len(terms) : contains(lower(entry.title), terms[i])

entry_search_hit(entry, terms) ==
    /\ terms # <<>>
    /\ \E i \in 1..Len(terms) :
          contains(lower(entry.title), terms[i]) \/ contains(lower(entry.content), terms[i])

(* fetch_feed on a response whose atom:entry elements are entries *)
fetch_feed(entries, feed_id, feed_title, feed_search) ==
    IF entries = <<>> THEN <<>>
    ELSE [i \in 1..Len(entries) |->
            from_entry(entries[i], feed_id, feed_title, feed_search,
                       entry_search_hit(entries[i], _split_terms(feed_search)))]

-----------------------------------------------------------------------------
(* main_window.py: merge_tickets *)

(* the Ticket that replaces an existing one, prev, when the feed returns t *)
merged_ticket_done_from_feed(prev, t, feed_search_custom) ==
    Ticket(t.ticket_id, t.subject, t.status, t.updated_on,
           prev.due_date, prev.description, prev.custom_fields,
           Or(t.url, prev.url), Or(t.feed_id, prev.feed_id), Or(t.feed_title, prev.feed_title),
           Or(t.feed_search, prev.feed_search), Or(feed_search_custom, prev.feed_search_custom),
           t.search_hit, t.done, t.done_at)

merged_ticket_details_from_feed(prev, t, feed_search_custom) ==
    Ticket(t.ticket_id, t.subject, t.status, t.updated_on,
           t.due_date, t.description, t.custom_fields,
           Or(t.url, prev.url), Or(t.feed_id, prev.feed_id), Or(t.feed_title, prev.feed_title),
           Or(t.feed_search, prev.feed_search), Or(feed_search_custom, prev.feed_search_custom),
           t.search_hit, prev.done, prev.done_at)

merged_ticket_no_fallback(prev, t, feed_search_custom) ==
    Ticket(t.ticket_id, t.subject, t.status, t.updated_on,
           prev.due_date, prev.description, prev.custom_fields,
           t.url, t.feed_id, t.feed_title, t.feed_search, feed_search_custom,
           t.search_hit, prev.done, prev.done_at)

merged_ticket(prev, t, feed_search_custom) ==
    Ticket(t.ticket_id, t.subject, t.status, t.updated_on,
           prev.due_date, prev.description, prev.custom_fields,
           Or(t.url, prev.url), Or(t.feed_id, prev.feed_id), Or(t.feed_title, prev.feed_title),
           Or(t.feed_search, prev.feed_search), Or(feed_search_custom, prev.feed_search_custom),
           t.search_hit, prev.done, prev.done_at)

merge_step_always_targets(m, t, feed_search_custom) ==
    IF dict_has(m.tickets, t.ticket_id) THEN
        LET prev == dict_get(m.tickets, t.ticket_id, t)
            changed == t.updated_on # prev.updated_on
        IN  [tickets |-> dict_put(m.tickets, t.ticket_id, merged_ticket(prev, t, feed_search_custom)),
             new_cnt |-> m.new_cnt,
             updated_cnt |-> IF changed THEN m.updated_cnt + 1 ELSE m.updated_cnt,
             detail_targets |-> m.detail_targets \cup {t.ticket_id}]
    ELSE
        [tickets |-> dict_put(m.tickets, t.ticket_id, [t EXCEPT !.feed_search_custom = feed_search_custom]),
         new_cnt |-> m.new_cnt + 1,
         updated_cnt |-> m.updated_cnt,
         detail_targets |-> m.detail_targets \cup {t.ticket_id}]

merge_step_counting_every_entry(m, t, feed_search_custom) ==
    IF dict_has(m.tickets, t.ticket_id) THEN
        LET prev == dict_get(m.tickets, t.ticket_id, t)
            changed == t.updated_on # prev.updated_on
        IN  [tickets |-> dict_put(m.tickets, t.ticket_id, merged_ticket(prev, t, feed_search_custom)),
             new_cnt |-> m.new_cnt,
             updated_cnt |-> m.updated_cnt + 1,
             detail_targets |-> IF changed THEN m.detail_targets \cup {t.ticket_id} ELSE m.detail_targets]
    ELSE
        [tickets |-> dict_put(m.tickets, t.ticket_id, [t EXCEPT !.feed_search_custom = feed_search_custom]),
         new_cnt |-> m.new_cnt + 1,
         updated_cnt |-> m.updated_cnt,
         detail_targets |-> m.detail_targets \cup {t.ticket_id}]

(* one iteration of the loop of merge_tickets; m is [tickets, new_cnt, updated_cnt, detail_targets] *)
merge_step(m, t, feed_search_custom) ==
    IF dict_has(m.tickets, t.ticket_id) THEN
        LET prev == dict_get(m.tickets, t.ticket_id, t)
            changed == t.updated_on # prev.updated_on
        IN  [tickets |-> dict_put(m.tickets, t.ticket_id, merged_ticket(prev, t, feed_search_custom)),
             new_cnt |-> m.new_cnt,
             updated_cnt |-> IF changed THEN m.updated_cnt + 1 ELSE m.updated_cnt,
             detail_targets |-> IF changed THEN m.detail_targets \cup {t.ticket_id} ELSE m.detail_targets]
    ELSE
        [tickets |-> dict_put(m.tickets, t.ticket_id, [t EXCEPT !.feed_search_custom = feed_search_custom]),
         new_cnt |-> m.new_cnt + 1,
         updated_cnt |-> m.updated_cnt,
         detail_targets |-> m.detail_targets \cup {t.ticket_id}]

RECURSIVE merge_loop(_, _, _)
merge_loop(m, fetched, feed_search_custom) ==
    IF fetched = <<>> THEN m
    ELSE merge_loop(merge_step(m, Head(fetched), feed_search_custom), Tail(fetched), feed_search_custom)

merge_tickets_replacing_store(existing, fetched, feed_search_custom) ==
    merge_loop([tickets |-> <<>>, new_cnt |-> 0, updated_cnt |-> 0, detail_targets |-> {}],
               fetched, feed_search_custom)

merge_tickets(existing, fetched, feed_search_custom) ==
    merge_loop([tickets |-> existing, new_cnt |-> 0, updated_cnt |-> 0, detail_targets |-> {}],
               fetched, feed_search_custom)

-----------------------------------------------------------------------------
(* main_window.py: _update_details *)

(* What fetch_issue_details does for one ticket: it raises, or returns a dict whose
   due_date is a str (<<>> when absent or empty) and whose description and
   custom_fields are None or a value. *)
DetailRaises == [raises |-> TRUE, due_date |-> <<>>, description |-> None, custom_fields |-> None]
DetailFull ==
    [raises |-> FALSE, due_date |-> <<"d1">>, description |-> Some(<<"a", "B">>),
     custom_fields |-> Some(<<<< <<"c", "f">>, <<"b">> >>>>)]
DetailEmpty == [raises |-> FALSE, due_date |-> <<>>, description |-> None, custom_fields |-> None]

any_term_in(terms, text) == \E i \in 1..Len(terms) : contains(text, terms[i])

update_ticket_hit_replaced(t, details) ==
    IF details.raises THEN t
    ELSE LET description == IF details.description # None THEN details.description[1] ELSE t.description
             custom_fields == IF details.custom_fields # None THEN details.custom_fields ELSE t.custom_fields
         IN  [t EXCEPT !.due_date = IF Truthy(details.due_date) THEN details.due_date ELSE t.due_date,
                       !.description = description,
                       !.custom_fields = custom_fields,
                       !.search_hit = any_term_in(_split_terms(t.feed_search), lower(description))]

(* the body of the loop of _update_details for a ticket t with a url *)
update_ticket(t, details) ==
    IF details.raises THEN t
    ELSE LET due_date == IF Truthy(details.due_date) THEN details.due_date ELSE t.due_date
             description == IF details.description # None THEN details.description[1] ELSE t.description
             custom_fields == IF details.custom_fields # None THEN details.custom_fields ELSE t.custom_fields
             cf == IF custom_fields = None THEN <<>> ELSE custom_fields[1]
             terms == _split_terms(t.feed_search)
             custom_targets == _split_terms(t.feed_search_custom)
             hit == \/ any_term_in(terms, lower(description))
                    \/ /\ custom_targets # <<>>
                       /\ Truthy(cf)
                       /\ \E i \in 1..Len(custom_targets) :
                             any_term_in(terms, lower(dict_get(cf, custom_targets[i], <<>>)))
         IN  [t EXCEPT !.due_date = due_date, !.description = description,
                       !.custom_fields = custom_fields,
                       !.search_hit = IF terms # <<>> /\ (Truthy(description) \/ Truthy(cf))
                                      THEN t.search_hit \/ hit ELSE t.search_hit]

_update_details_stopping_at_failure(tks, ticket_ids, details) ==
    IF tks = <<>> THEN <<>>
    ELSE [i \in 1..Len(tks) |->
            IF /\ tks[i][1] \in ticket_ids /\ Truthy(tks[i][2].url)
               /\ \A j \in 1..(i - 1) :
                     ~(tks[j][1] \in ticket_ids /\ Truthy(tks[j][2].url) /\ details[tks[j][1]].raises)
            THEN <<tks[i][1], update_ticket(tks[i][2], details[tks[i][1]])>>
            ELSE tks[i]]

(* _update_details(ticket_ids, api_key); details[tid] is what fetch_issue_details does for tid *)
_update_details(tks, ticket_ids, details) ==
    IF tks = <<>> THEN <<>>
    ELSE [i \in 1..Len(tks) |->
            IF tks[i][1] \in ticket_ids /\ Truthy(tks[i][2].url)
            THEN <<tks[i][1], update_ticket(tks[i][2], details[tks[i][1]])>>
            ELSE tks[i]]

-----------------------------------------------------------------------------
(* main_window.py: _sync_feeds *)

(* the loop over the feeds; outcomes[i] is what the server does for the i-th feed:
   kind "ok" with the entries of its response, or the exception fetch_feed raises *)
(* one statement of a cycle that the outside can see: the fetch or the merge of a
   feed, the calls of fetch_issue_details for ids, save_csv, the status label of a
   completed cycle, the tray notification, the error dialog *)
Step(step, feed, ids) == [step |-> step, feed |-> feed, ids |-> ids]

RECURSIVE sync_loop_saving_each_feed(_, _, _)
sync_loop_saving_each_feed(acc, feeds, outcomes) ==
    IF feeds = <<>> THEN acc
    ELSE LET feed == Head(feeds)
             f_id == get(feed, "id", <<>>)
             out == Head(outcomes)
         IN  IF ~Truthy(Or(get(feed, "url", <<>>), get(feed, "feed_url", <<>>)))
             THEN sync_loop_saving_each_feed(acc, Tail(feeds), Tail(outcomes))
             ELSE IF out.kind # "ok"
                  THEN [acc EXCEPT !.raised = out.kind, !.steps = Append(@, Step("fetch", f_id, {}))]
             ELSE LET fetched == fetch_feed(out.entries, f_id, get(feed, "title", <<"feed">>),
                                            get(feed, "search", <<>>))
                      m == merge_tickets(acc.tickets, fetched, get(feed, "search_custom", <<>>))
                  IN  sync_loop_saving_each_feed(
                          [raised |-> "",
                           tickets |-> m.tickets,
                           total_fetched |-> acc.total_fetched + Len(fetched),
                           total_new |-> acc.total_new + m.new_cnt,
                           total_updated |-> acc.total_updated + m.updated_cnt,
                           detail_targets |-> acc.detail_targets \cup m.detail_targets,
                           steps |-> acc.steps \o <<Step("fetch", f_id, {}), Step("merge", f_id, {}),
                                                    Step("save_csv", <<>>, {})>>],
                          Tail(feeds), Tail(outcomes))

RECURSIVE sync_loop(_, _, _)
sync_loop(acc, feeds, outcomes) ==
    IF feeds = <<>> THEN acc
    ELSE LET feed == Head(feeds)
             f_id == get(feed, "id", <<>>)
             f_title == get(feed, "title", <<"feed">>)
             f_url == Or(get(feed, "url", <<>>), get(feed, "feed_url", <<>>))
             f_search == get(feed, "search", <<>>)
             f_search_custom == get(feed, "search_custom", <<>>)
             out == Head(outcomes)
         IN  IF ~Truthy(f_url) THEN sync_loop(acc, Tail(feeds), Tail(outcomes))
             ELSE IF out.kind # "ok"
                  THEN [acc EXCEPT !.raised = out.kind, !.steps = Append(@, Step("fetch", f_id, {}))]
             ELSE LET fetched == fetch_feed(out.entries, f_id, f_title, f_search)
                      m == merge_tickets(acc.tickets, fetched, f_search_custom)
                  IN  sync_loop([raised |-> "",
                                 tickets |-> m.tickets,
                                 total_fetched |-> acc.total_fetched + Len(fetched),
                                 total_new |-> acc.total_new + m.new_cnt,
                                 total_updated |-> acc.total_updated + m.updated_cnt,
                                 detail_targets |-> acc.detail_targets \cup m.detail_targets,
                                 steps |-> acc.steps \o <<Step("fetch", f_id, {}), Step("merge", f_id, {})>>],
                                Tail(feeds), Tail(outcomes))

(* the tickets _update_details calls fetch_issue_details for *)
detail_calls(tks, ticket_ids) ==
    {tks[i][1] : i \in {j \in 1..Len(tks) : tks[j][1] \in ticket_ids /\ Truthy(tks[j][2].url)}}

_sync_feeds(tks, cfg, feeds, outcomes, details) ==
    LET r == sync_loop([raised |-> "", tickets |-> tks, total_fetched |-> 0, total_new |-> 0,
                        total_updated |-> 0, detail_targets |-> {}, steps |-> <<>>], feeds, outcomes)
    IN  IF r.raised = "" /\ get(cfg, "enable_api_details", FALSE) /\ r.detail_targets # {}
        THEN [r EXCEPT !.tickets = _update_details(r.tickets, r.detail_targets, details),
                       !.steps = Append(@, Step("details", <<>>, detail_calls(r.tickets, r.detail_targets)))]
        ELSE r

-----------------------------------------------------------------------------
(* The environment: config.json and tickets.csv at launch, the feeds' responses,
   the clock, the user's edits in the configuration dialog *)

FeedA == [id |-> <<"fa">>, title |-> <<"A">>, url |-> <<"urlA">>, search |-> <<"B", ",", " ">>,
          search_custom |-> <<"c", "f">>]
FeedB == [id |-> <<"fb">>, title |-> <<"B">>, url |-> <<"urlB">>, search |-> <<>>]
FeedAdded == [title |-> <<"C">>, url |-> <<"urlC">>, search |-> <<"x">>, search_custom |-> <<>>]

CfgTwoFeeds ==
    [api_key |-> <<"k">>, refresh_minutes |-> 0, feeds |-> <<FeedA, FeedB>>,
     enable_api_details |-> TRUE]
CfgNoFeeds == [api_key |-> <<"k">>, refresh_minutes |-> 30, feeds |-> <<>>]
InitDisk == {None, Some(CfgTwoFeeds), Some(CfgNoFeeds)}

TicketNums == {"1", "2"}

(* the Atom entry of issue n in its v-th revision *)
Entry(n, v) ==
    IF v = 1
    THEN [title |-> <<"P", " ", "#", n, ":", " ", "a", "c">>, updated |-> <<"u1">>,
          id |-> <<"http://r/issues/", n>>, term |-> <<"New">>, content |-> <<"x">>]
    ELSE [title |-> <<" ", "#", n, ":", " ", "B", "c">>, updated |-> <<"u2", " ">>,
          id |-> <<>>, term |-> <<>>, content |-> <<>>]

(* the entry lists a feed url may answer with *)
Responses(url) ==
    CASE url = <<"urlA">> -> {<<Entry("1", 1)>>, <<Entry("1", 1), Entry("1", 2)>>}
      [] url = <<"urlB">> -> {<<>>, <<Entry("1", 2), Entry("2", 1)>>}
      [] OTHER -> {<<Entry("2", 1)>>}

(* a server whose issues do not change answers each url with one entry list *)
SteadyResponse(url) ==
    CASE url = <<"urlA">> -> <<Entry("1", 1)>>
      [] url = <<"urlB">> -> <<>>
      [] OTHER -> <<Entry("2", 1)>>

(* how a request of a feed url fails: the server of urlB cannot be reached (URLError),
   the other servers answer with an error status (HTTPError) *)
Failure(url) == IF url = <<"urlB">> THEN "error" ELSE "http"

(* what the server does for one feed: the request raises, or the response parses
   into entries *)
FetchOutcomes(url, steady) ==
    {[kind |-> Failure(url), entries |-> <<>>]}
    \cup {[kind |-> "ok", entries |-> es] :
             es \in IF steady THEN {SteadyResponse(url)} ELSE Responses(url)}

(* the outcomes of the fetches of the feeds: nothing is fetched after the first failure *)
OutcomeSeqs(feeds, steady) ==
    {o \in [1..Len(feeds) -> UNION {FetchOutcomes(feeds[i].url, steady) : i \in 1..Len(feeds)}] :
        \A i \in 1..Len(feeds) :
            IF \A k \in 1..(i - 1) : o[k].kind = "ok"
            THEN o[i] \in FetchOutcomes(feeds[i].url, steady)
            ELSE o[i] = o[i - 1]}

TicketIds == {<<n>> : n \in TicketNums}

(* what fetch_issue_details does for each ticket of a call of _update_details *)
DetailMaps ==
    {[t \in TicketIds |-> IF t = <<"1">> THEN DetailFull ELSE DetailEmpty],
     [t \in TicketIds |-> IF t = <<"1">> THEN DetailRaises ELSE DetailFull]}
NoDetails == [t \in TicketIds |-> DetailRaises]
(* further answers of fetch_issue_details: an issue whose description and custom
   fields are present and empty, and one whose details match no search term *)
DetailBlank == [raises |-> FALSE, due_date |-> <<>>, description |-> Some(<<>>), custom_fields |-> Some(<<>>)]
DetailNoMatch ==
    [raises |-> FALSE, due_date |-> <<"d2">>, description |-> Some(<<"z">>), custom_fields |-> None]
DetailPool == {DetailRaises, DetailFull, DetailEmpty, DetailBlank, DetailNoMatch}

Digit(i) == CASE i = 1 -> "1" [] i = 2 -> "2" [] i = 3 -> "3" [] OTHER -> "0"
(* datetime.now().isoformat(timespec="seconds") *)
Times == {<<"t", Digit(i)>> : i \in 1..MaxClock}

StoredTicket ==
    Ticket(<<"1">>, <<"a", "c">>, <<"New">>, <<"u1">>, <<"d0">>, <<"old">>, Some(<<>>),
           <<"http://r/issues/", "1">>, <<"fa">>, <<"A">>, <<"B", ",", " ">>, <<>>,
           FALSE, TRUE, Some(<<"t", "0">>))
StoredOpenTicket ==
    Ticket(<<"2">>, <<"a", "c">>, <<"New">>, <<"u1">>, <<>>, <<>>, Some(<<>>),
           <<"http://r/issues/", "2">>, <<"fb">>, <<"B">>, <<>>, <<>>, FALSE, FALSE, None)
(* tickets.csv at launch: absent, or written by an earlier run *)
InitFiles ==
    {NoFile, save_csv(<< <<StoredTicket.ticket_id, StoredTicket>>,
                         <<StoredOpenTicket.ticket_id, StoredOpenTicket>> >>)}

(* the ids normalize_feeds draws matter only when a feed has no id *)
needs_uuid(cfg) ==
    \/ \E i \in 1..Len(get(cfg, "feeds", <<>>)) : ~Truthy(get(cfg.feeds[i], "id", <<>>))
    \/ select_with_url(get(cfg, "feeds", <<>>)) = <<>>
UuidChoices(cfg) == IF needs_uuid(cfg) THEN UuidSupplies ELSE {<<<<"g1">>, <<"g1">>>>}

(* ev: the handler that ran last (op), how it ended (result), for sync_now what called
   it (src), how many sync_now calls were blocked in a dialog when it started (depth)
   and the ids of the stored tickets its feeds returned (merged) *)
(* the desktops the program is launched on: with a system tray, for every
   config.json and tickets.csv; and without one, for a first launch *)
Launches ==
    {[disk |-> d, file |-> f, tray |-> TRUE] : d \in InitDisk, f \in InitFiles}
    \cup {[disk |-> None, file |-> NoFile, tray |-> FALSE]}

NoEvent == [op |-> "init", result |-> "", src |-> "", depth |-> 0, merged |-> {}, steps |-> <<>>]

Init ==
    /\ \E l \in Launches :
          /\ config = load_config(l.disk, <<<<"g1">>, <<"g2">>>>)
          /\ csv_file = l.file
          /\ tray = l.tray
    /\ tickets = load_csv(csv_file)
    /\ sync_running = FALSE
    /\ next_sync_at = None
    /\ sync_timer = [active |-> FALSE, interval |-> 0]
    /\ countdown_active = FALSE
    /\ stack = <<>>
    /\ launched = FALSE
    /\ ops = 0
    /\ timeouts = 0
    /\ ev = NoEvent

-----------------------------------------------------------------------------
(* main_window.py: the handlers *)

Idle == launched /\ stack = <<>>
UserCanAct == Idle /\ ops < MaxOps

schedule_sync(delay) ==
    /\ sync_timer' = [active |-> TRUE, interval |-> delay]
    /\ next_sync_at' = Some(delay)

api_key_missing_empty_only(cfg) == ~Truthy(get(cfg, "api_key", <<>>))

api_key_missing(cfg) ==
    ~Truthy(get(cfg, "api_key", <<>>)) \/ get(cfg, "api_key", <<>>) = PLACEHOLDER_KEY

start_sync_without_countdown ==
    \E uuids \in UuidChoices(config) :
        LET feeds == normalize_feeds(config, uuids) IN
        IF api_key_missing(config) \/ feeds = <<>>
        THEN /\ ev' = [NoEvent EXCEPT !.op = "start_sync", !.result = "refused"]
             /\ UNCHANGED <<sync_running, sync_timer, next_sync_at, countdown_active>>
        ELSE /\ sync_running' = TRUE
             /\ schedule_sync(0)
             /\ UNCHANGED countdown_active
             /\ ev' = [NoEvent EXCEPT !.op = "start_sync", !.result = "started"]

start_sync ==
    \E uuids \in UuidChoices(config) :
        LET feeds == normalize_feeds(config, uuids) IN
        IF api_key_missing(config) \/ feeds = <<>>
        THEN /\ ev' = [NoEvent EXCEPT !.op = "start_sync", !.result = "refused"]
             /\ UNCHANGED <<sync_running, sync_timer, next_sync_at, countdown_active>>
        ELSE /\ sync_running' = TRUE
             /\ schedule_sync(0)
             /\ countdown_active' = TRUE
             /\ ev' = [NoEvent EXCEPT !.op = "start_sync", !.result = "started"]

stop_sync_timer_left_running ==
    /\ sync_running' = FALSE
    /\ countdown_active' = FALSE
    /\ UNCHANGED <<sync_timer, next_sync_at>>
    /\ ev' = [NoEvent EXCEPT !.op = "stop_sync"]

stop_sync ==
    /\ sync_running' = FALSE
    /\ sync_timer' = [sync_timer EXCEPT !.active = FALSE]
    /\ countdown_active' = FALSE
    /\ UNCHANGED next_sync_at
    /\ ev' = [NoEvent EXCEPT !.op = "stop_sync"]

(* QTimer.singleShot(0, self.start_sync) of __init__ *)
Launch ==
    /\ ~launched
    /\ launched' = TRUE
    /\ start_sync
    /\ UNCHANGED <<tickets, csv_file, config, stack, ops, timeouts, tray>>

toggle_sync ==
    /\ UserCanAct
    /\ IF sync_running THEN stop_sync ELSE start_sync
    /\ ops' = ops + 1
    /\ UNCHANGED <<tickets, csv_file, config, stack, launched, timeouts, tray>>

merged_ids(tks, outcomes) ==
    {tks[i][1] : i \in 1..Len(tks)} \cap
    UNION {{extract_ticket_id(e, strip(e.title)) : e \in Range(outcomes[j].entries)} :
             j \in {k \in DOMAIN outcomes : outcomes[k].kind = "ok"}}

delay_ms_without_max(refresh_minutes) == refresh_minutes * 60 * 1000

(* delay_ms of the finally block of sync_now *)
delay_ms(refresh_minutes) == (IF refresh_minutes > 1 THEN refresh_minutes ELSE 1) * 60 * 1000

sync_finally_timer_stopped(refresh_minutes) ==
    /\ sync_timer' = [sync_timer EXCEPT !.active = FALSE]
    /\ UNCHANGED next_sync_at

sync_finally_always_rearms(refresh_minutes) == schedule_sync(delay_ms(refresh_minutes))

(* the finally block of sync_now *)
sync_finally(refresh_minutes) ==
    IF sync_running THEN schedule_sync(delay_ms(refresh_minutes))
    ELSE UNCHANGED <<sync_timer, next_sync_at>>

file_after_sync_always_saved(file, r) == save_csv(r.tickets)

(* the file after the try block of sync_now, r being what _sync_feeds did *)
file_after_sync(file, r) == IF r.raised = "" THEN save_csv(r.tickets) ELSE file

(* whether _sync_feeds reaches its call of _update_details *)
details_wanted(tks, cfg, feeds, outcomes) ==
    LET r == _sync_feeds(tks, [cfg EXCEPT !.enable_api_details = FALSE], feeds, outcomes, NoDetails) IN
    "enable_api_details" \in DOMAIN cfg /\ cfg.enable_api_details /\ r.raised = "" /\ r.detail_targets # {}

(* the statements of sync_now after _sync_feeds did r: the rest of the try block, or
   the except block *)
steps_after_notify_without_tray(r, has_tray) ==
    IF r.raised # "" THEN <<Step("dialog", <<>>, {})>>
    ELSE <<Step("save_csv", <<>>, {}), Step("status", <<>>, {})>>
         \o (IF r.total_new > 0 \/ r.total_updated > 0 THEN <<Step("notify", <<>>, {})>> ELSE <<>>)

steps_after(r, has_tray) ==
    IF r.raised # "" THEN <<Step("dialog", <<>>, {})>>
    ELSE <<Step("save_csv", <<>>, {}), Step("status", <<>>, {})>>
         \o (IF has_tray /\ (r.total_new > 0 \/ r.total_updated > 0)
             THEN <<Step("notify", <<>>, {})>> ELSE <<>>)

(* sync_now, up to its return or to the modal dialog it opens *)
sync_now(src, steady) ==
    /\ timeouts' = IF src = "timer" THEN 1 - timeouts ELSE timeouts
    /\ \E uuids \in UuidChoices(config) :
           LET refresh_minutes == get(config, "refresh_minutes", 30)
               feeds == normalize_feeds(config, uuids)
           IN  IF feeds = <<>>
               THEN /\ stack' = Append(stack, [kind |-> "nofeeds", src |-> src, refresh_minutes |-> refresh_minutes])
                    /\ ev' = [NoEvent EXCEPT !.op = "sync_now", !.result = "nofeeds", !.src = src,
                                             !.depth = Len(stack),
                                             !.steps = <<Step("dialog", <<>>, {})>>]
                    /\ UNCHANGED <<tickets, csv_file, sync_timer, next_sync_at>>
               ELSE \E outcomes \in OutcomeSeqs(feeds, steady) :
                    \E details \in (IF ~details_wanted(tickets, config, feeds, outcomes) THEN {NoDetails}
                                    ELSE IF steady THEN {[t \in TicketIds |-> DetailFull]}
                                    ELSE DetailMaps) :
                       LET r == _sync_feeds(tickets, config, feeds, outcomes, details) IN
                       /\ tickets' = r.tickets
                       /\ ev' = [op |-> "sync_now", result |-> IF r.raised = "" THEN "ok" ELSE r.raised,
                                 src |-> src, depth |-> Len(stack),
                                 merged |-> merged_ids(tickets, outcomes),
                                 steps |-> r.steps \o steps_after(r, tray)]
                       /\ csv_file' = file_after_sync(csv_file, r)
                       /\ IF r.raised = ""
                          THEN /\ UNCHANGED stack
                               /\ sync_finally(refresh_minutes)
                          ELSE /\ stack' = Append(stack, [kind |-> r.raised, src |-> src,
                                                          refresh_minutes |-> refresh_minutes])
                               /\ UNCHANGED <<sync_timer, next_sync_at>>

(* sync_timer.timeout: Qt delivers no timeout of a timer whose slot has not returned *)
SyncTimerFires ==
    /\ launched
    /\ ops < MaxOps
    /\ sync_timer.active
    /\ \A i \in 1..Len(stack) : stack[i].src # "timer"
    /\ sync_now("timer", FALSE)
    /\ ops' = ops + 1
    /\ UNCHANGED <<config, sync_running, countdown_active, launched, tray>>

(* sync_btn.clicked *)
SyncButton ==
    /\ UserCanAct
    /\ sync_now("manual", FALSE)
    /\ ops' = ops + 1
    /\ UNCHANGED <<config, sync_running, countdown_active, launched, tray>>

(* the user closes the dialog of the innermost blocked sync_now, which then returns *)
DismissDialog ==
    /\ stack # <<>>
    /\ LET frame == stack[Len(stack)] IN
       /\ stack' = SubSeq(stack, 1, Len(stack) - 1)
       /\ IF frame.kind # "nofeeds"
          THEN sync_finally(frame.refresh_minutes)
          ELSE UNCHANGED <<sync_timer, next_sync_at>>
       /\ ev' = [NoEvent EXCEPT !.op = "sync_now_returns", !.result = frame.kind, !.src = frame.src]
    /\ UNCHANGED <<tickets, csv_file, config, sync_running, countdown_active, launched, ops, timeouts, tray>>

-----------------------------------------------------------------------------
(* main_window.py: the completion flag *)

store_ids(tks) == {tks[i][1] : i \in 1..Len(tks)}

toggled_keeping_done_at(t, now) == [t EXCEPT !.done = ~t.done, !.done_at = IF ~t.done THEN Some(now) ELSE t.done_at]

(* t.done = not t.done; t.done_at = now if t.done else None *)
toggled(t, now) == [t EXCEPT !.done = ~t.done, !.done_at = IF ~t.done THEN Some(now) ELSE None]

toggle_all(tks, ids, now) ==
    IF tks = <<>> THEN <<>>
    ELSE [i \in 1..Len(tks) |->
            IF tks[i][1] \in ids THEN <<tks[i][1], toggled(tks[i][2], now)>> ELSE tks[i]]

(* what toggle_done_one(ticket_id) at time now makes of the store, and whether it
   calls save_csv *)
toggle_done_one_result(tks, ticket_id, now) ==
    IF dict_has(tks, ticket_id)
    THEN [tickets |-> toggle_all(tks, {ticket_id}, now), saved |-> TRUE]
    ELSE [tickets |-> tks, saved |-> FALSE]

(* done_btn.clicked of the row of ticket_id *)
toggle_done_one(ticket_id) ==
    /\ UserCanAct
    /\ \E now \in Times :
          LET r == toggle_done_one_result(tickets, ticket_id, now) IN
          /\ tickets' = r.tickets
          /\ csv_file' = IF r.saved THEN save_csv(r.tickets) ELSE csv_file
          /\ ev' = [NoEvent EXCEPT !.op = "toggle_done_one",
                                   !.result = IF r.saved THEN "saved" ELSE "unknown"]
    /\ ops' = ops + 1
    /\ UNCHANGED <<config, sync_running, sync_timer, next_sync_at, countdown_active, stack, launched, timeouts, tray>>

(* toggle_done_btn.clicked; selected is the set of the ticket ids of the selected rows *)
toggle_selected(selected) ==
    /\ UserCanAct
    /\ IF selected # {}
       THEN \E now \in Times :
               /\ tickets' = toggle_all(tickets, selected, now)
               /\ csv_file' = save_csv(tickets')
               /\ ev' = [NoEvent EXCEPT !.op = "toggle_selected", !.result = "saved"]
       ELSE /\ UNCHANGED <<tickets, csv_file>>
            /\ ev' = [NoEvent EXCEPT !.op = "toggle_selected", !.result = "nothing"]
    /\ ops' = ops + 1
    /\ UNCHANGED <<config, sync_running, sync_timer, next_sync_at, countdown_active, stack, launched, timeouts, tray>>

set_done_result_restamping(tks, ticket_id, now) ==
    IF dict_has(tks, ticket_id)
    THEN [tickets |-> dict_put(tks, ticket_id,
                               [dict_get(tks, ticket_id, <<>>) EXCEPT !.done = TRUE, !.done_at = Some(now)]),
          saved |-> TRUE]
    ELSE [tickets |-> tks, saved |-> FALSE]

(* what set_done(ticket_id) at time now makes of the store, and whether it calls
   save_csv *)
set_done_result(tks, ticket_id, now) ==
    IF dict_has(tks, ticket_id) /\ ~dict_get(tks, ticket_id, <<>>).done
    THEN [tickets |-> dict_put(tks, ticket_id,
                               [dict_get(tks, ticket_id, <<>>) EXCEPT !.done = TRUE, !.done_at = Some(now)]),
          saved |-> TRUE]
    ELSE [tickets |-> tks, saved |-> FALSE]

(* set_done(ticket_id), called when the user answers Yes in handle_item_double_clicked *)
set_done(ticket_id) ==
    /\ UserCanAct
    /\ \E now \in Times :
          LET r == set_done_result(tickets, ticket_id, now) IN
          /\ tickets' = r.tickets
          /\ csv_file' = IF r.saved THEN save_csv(r.tickets) ELSE csv_file
          /\ ev' = [NoEvent EXCEPT !.op = "set_done",
                                   !.result = IF r.saved THEN "saved" ELSE "nothing"]
    /\ ops' = ops + 1
    /\ UNCHANGED <<config, sync_running, sync_timer, next_sync_at, countdown_active, stack, launched, timeouts, tray>>

pending_ids_with_done(tks) == {tks[i][1] : i \in {j \in 1..Len(tks) : Truthy(tks[j][2].url)}}

pending_ids(tks) == {tks[i][1] : i \in {j \in 1..Len(tks) : ~tks[j][2].done /\ Truthy(tks[j][2].url)}}

(* refetch_pending_btn.clicked *)
refetch_pending_api ==
    /\ UserCanAct
    /\ IF \/ ~get(config, "enable_api_details", FALSE)
          \/ api_key_missing(config)
          \/ pending_ids(tickets) = {}
       THEN /\ UNCHANGED <<tickets, csv_file>>
            /\ ev' = [NoEvent EXCEPT !.op = "refetch_pending_api", !.result = "nothing"]
       ELSE \E details \in DetailMaps :
               /\ tickets' = _update_details(tickets, pending_ids(tickets), details)
               /\ csv_file' = save_csv(tickets')
               /\ ev' = [NoEvent EXCEPT !.op = "refetch_pending_api", !.result = "saved"]
    /\ ops' = ops + 1
    /\ UNCHANGED <<config, sync_running, sync_timer, next_sync_at, countdown_active, stack, launched, timeouts, tray>>

-----------------------------------------------------------------------------
(* dialogs.py: ConfigDialog, and open_config_dialog / reload_config of main_window.py *)

(* what the user does in the dialog before saving *)
DialogInputs ==
    {[edit |-> "keep", api_key |-> <<"k">>, refresh_minutes |-> 1, enable_api_details |-> FALSE],
     [edit |-> "add", api_key |-> <<" ", "k">>, refresh_minutes |-> 1, enable_api_details |-> TRUE],
     [edit |-> "delete", api_key |-> <<"k">>, refresh_minutes |-> 30, enable_api_details |-> TRUE]}

(* self.feeds after the user's add_feed or delete_feed *)
edited_feeds(feeds, edit, uuid) ==
    CASE edit = "add" ->
            Append(feeds, [k \in DOMAIN FeedAdded \cup {"id"} |-> IF k = "id" THEN uuid ELSE FeedAdded[k]])
      [] edit = "delete" -> IF feeds = <<>> THEN feeds ELSE Tail(feeds)
      [] OTHER -> feeds

(* QSpinBox.setRange(1, 1440) then setValue *)
spin_value(v) == IF v < 1 THEN 1 ELSE IF v > 1440 THEN 1440 ELSE v

(* new_cfg of save_and_close *)
new_cfg(cfg, api_key, refresh_minutes, feeds, enable_api_details) ==
    [k \in DOMAIN cfg \cup {"api_key", "refresh_minutes", "feeds", "enable_api_details"} |->
        CASE k = "api_key" -> api_key
          [] k = "refresh_minutes" -> refresh_minutes
          [] k = "feeds" -> feeds
          [] k = "enable_api_details" -> enable_api_details
          [] OTHER -> cfg[k]]

(* config_btn.clicked, the dialog accepted by save_and_close *)
open_config_dialog ==
    /\ UserCanAct
    /\ \E uuids \in UuidChoices(config), uuid \in Uuids, input \in DialogInputs :
          LET feeds == edited_feeds(normalize_feeds(config, uuids), input.edit, uuid) IN
          /\ input.edit = "add" \/ uuid = <<"g1">>
          /\ feeds # <<>>
          /\ \A i \in 1..Len(feeds) : Truthy(get(feeds[i], "url", <<>>))
          /\ ~(input.enable_api_details /\ ~Truthy(strip(input.api_key)))
          /\ config' = load_config(Some(new_cfg(config, strip(input.api_key),
                                                spin_value(input.refresh_minutes), feeds,
                                                input.enable_api_details)), uuids)
    /\ ev' = [NoEvent EXCEPT !.op = "open_config_dialog", !.result = "saved"]
    /\ ops' = ops + 1
    /\ UNCHANGED <<tickets, csv_file, sync_running, sync_timer, next_sync_at, countdown_active, stack, launched, timeouts, tray>>

-----------------------------------------------------------------------------

Next ==
    \/ Launch
    \/ toggle_sync
    \/ SyncTimerFires
    \/ SyncButton
    \/ DismissDialog
    \/ \E ticket_id \in TicketIds : toggle_done_one(ticket_id)
    \/ \E selected \in SUBSET store_ids(tickets) : toggle_selected(selected)
    \/ \E ticket_id \in TicketIds : set_done(ticket_id)
    \/ refetch_pending_api
    \/ open_config_dialog

Spec == Init /\ [][Next]_vars

(* The sync cycles alone: the program as the timer, the sync button, the error
   dialogs and the configuration dialog drive it, with the done flags left as the
   file of the launch holds them. *)
SyncNext ==
    \/ Launch
    \/ SyncTimerFires
    \/ SyncButton
    \/ DismissDialog
    \/ open_config_dialog

SyncSpec == Init /\ [][SyncNext]_vars

-----------------------------------------------------------------------------
(* The program polling a server whose issues do not change, for as long as the timer
   runs: the timer is not counted in ops.  The user closes every dialog and an armed
   timer times out. *)

SteadyTimerFires ==
    /\ launched
    /\ sync_timer.active
    /\ \A i \in 1..Len(stack) : stack[i].src # "timer"
    /\ UNCHANGED <<config, sync_running, countdown_active, launched, ops, tray>>
    /\ sync_now("timer", TRUE)

PollNext ==
    \/ Launch
    \/ toggle_sync
    \/ SteadyTimerFires
    \/ DismissDialog
    \/ open_config_dialog

(* A timeout of the armed timer is delivered, and the user closes the dialog of a
   blocked sync_now.  TimerTimeout and DialogClosed are the steps of SteadyTimerFires
   and of DismissDialog, each written by its enabling condition and by the one variable
   that every such step, and no other step of PollNext, changes in this way. *)
TimerTimeout ==
    /\ launched
    /\ sync_timer.active
    /\ \A i \in 1..Len(stack) : stack[i].src # "timer"
    /\ timeouts' = 1 - timeouts

DialogClosed ==
    /\ stack # <<>>
    /\ stack' = SubSeq(stack, 1, Len(stack) - 1)

(* the program is launched with a configuration that starts syncing *)
PollInit ==
    /\ Init
    /\ ~api_key_missing(config)
    /\ get(config, "feeds", <<>>) # <<>>

PollSpec ==
    /\ PollInit
    /\ [][PollNext]_vars
    /\ WF_stack(DialogClosed)
    /\ WF_timeouts(TimerTimeout)

-----------------------------------------------------------------------------
(* Properties *)

(* the calls of merge_tickets the feeds can cause *)
MergeCalls ==
    UNION {{[fetched |-> fetch_feed(es, f.id, f.title, f.search), feed_search_custom |-> c] :
              es \in Responses(f.url), c \in {<<>>, <<"c", "f">>}} : f \in {FeedA, FeedB}}

Merged(call) == merge_tickets(tickets, call.fetched, call.feed_search_custom).tickets
Stored(tks, id) == dict_get(tks, id, <<>>)
Max(S) == CHOOSE x \in S : \A y \in S : x >= y

(* C1: merge_tickets leaves the done flag and the done_at timestamp of every ticket
   already in the store as they were, whatever the feed returned, in every store the
   program can reach. *)
C1_MergeKeepsDone ==
    \A call \in MergeCalls : \A id \in store_ids(tickets) :
        /\ dict_has(Merged(call), id)
        /\ Stored(Merged(call), id).done = Stored(tickets, id).done
        /\ Stored(Merged(call), id).done_at = Stored(tickets, id).done_at

(* a cycle has merged feed entries over a ticket the user had marked done *)
C1_Witness ==
    /\ ev.op = "sync_now"
    /\ \E id \in ev.merged : Stored(tickets, id).done /\ Stored(tickets, id).done_at # None

(* C2: merge_tickets leaves due_date, description and custom_fields of every ticket
   already in the store unchanged. *)
C2_MergeKeepsDetails ==
    \A call \in MergeCalls : \A id \in store_ids(tickets) :
        /\ Stored(Merged(call), id).due_date = Stored(tickets, id).due_date
        /\ Stored(Merged(call), id).description = Stored(tickets, id).description
        /\ Stored(Merged(call), id).custom_fields = Stored(tickets, id).custom_fields

(* a failed cycle (no detail fetch ran) has merged entries over a ticket with details *)
C2_Witness ==
    /\ ev.op = "sync_now"
    /\ ev.result = "error"
    /\ \E id \in ev.merged :
          Truthy(Stored(tickets, id).due_date) /\ Truthy(Stored(tickets, id).description)

entries_of(fetched, id) == {i \in 1..Len(fetched) : fetched[i].ticket_id = id}

(* C3 as stated: after merge_tickets the stored ticket equals every fetched entry of
   its id in subject, status, updated_on and search_hit, and in url, feed_id,
   feed_title and feed_search when the entry's value is non-empty, the previous
   stored value standing in otherwise. *)
C3_EveryFetchedEntry ==
    \A call \in MergeCalls : \A id \in store_ids(tickets) : \A i \in entries_of(call.fetched, id) :
        LET t == call.fetched[i]
            prev == Stored(tickets, id)
            new == Stored(Merged(call), id)
        IN  /\ new.subject = t.subject
            /\ new.status = t.status
            /\ new.updated_on = t.updated_on
            /\ new.search_hit = t.search_hit
            /\ new.url = Or(t.url, prev.url)
            /\ new.feed_id = Or(t.feed_id, prev.feed_id)
            /\ new.feed_title = Or(t.feed_title, prev.feed_title)
            /\ new.feed_search = Or(t.feed_search, prev.feed_search)

(* C3, amended: the stored ticket equals the last fetched entry of its id in subject,
   status, updated_on and search_hit; url, feed_id, feed_title and feed_search are
   those of the last entry of that id that carries a non-empty value, and the
   previous stored value when no entry does. *)
C3_LastFetchedEntry ==
    \A call \in MergeCalls : \A id \in store_ids(tickets) :
        LET at == entries_of(call.fetched, id)
            prev == Stored(tickets, id)
            new == Stored(Merged(call), id)
            last == call.fetched[Max(at)]
            latest(field) ==
                LET carrying == {i \in at : Truthy(call.fetched[i][field])} IN
                IF carrying = {} THEN prev[field] ELSE call.fetched[Max(carrying)][field]
        IN  at # {} =>
                /\ new.subject = last.subject
                /\ new.status = last.status
                /\ new.updated_on = last.updated_on
                /\ new.search_hit = last.search_hit
                /\ new.url = latest("url")
                /\ new.feed_id = latest("feed_id")
                /\ new.feed_title = latest("feed_title")
                /\ new.feed_search = latest("feed_search")

(* a cycle has merged an entry without atom:id and with an empty feed search over a
   stored ticket, which kept its url and its feed_search *)
C3_Witness ==
    /\ ev.op = "sync_now"
    /\ \E id \in ev.merged :
          /\ Stored(tickets, id).updated_on = <<"u2">>
          /\ Stored(tickets, id).feed_id = <<"fb">>
          /\ Truthy(Stored(tickets, id).url)
          /\ Truthy(Stored(tickets, id).feed_search)

(* C4: save_csv followed by load_csv gives back the same ticket ids, in the same
   order, each with the same done flag, done_at (None written as an empty cell and
   read back as None), subject, status, updated_on, due_date, description, url and
   feed fields. *)
C4_CsvRoundTrip ==
    LET back == load_csv(save_csv(tickets)) IN
    /\ Len(back) = Len(tickets)
    /\ \A i \in 1..Len(tickets) :
          LET t == tickets[i][2]
              b == back[i][2]
          IN  /\ back[i][1] = tickets[i][1]
              /\ b.ticket_id = t.ticket_id
              /\ b.done = t.done
              /\ b.done_at = t.done_at
              /\ b.subject = t.subject
              /\ b.status = t.status
              /\ b.updated_on = t.updated_on
              /\ b.due_date = t.due_date
              /\ b.description = t.description
              /\ b.url = t.url
              /\ b.feed_id = t.feed_id
              /\ b.feed_title = t.feed_title
              /\ b.feed_search = t.feed_search
              /\ b.feed_search_custom = t.feed_search_custom

(* the store was saved in this run with a ticket marked done and one not done *)
C4_Witness ==
    /\ ev.result = "saved"
    /\ csv_file = save_csv(tickets)
    /\ \E id \in store_ids(tickets) : Stored(tickets, id).done /\ Stored(tickets, id).done_at # None
    /\ \E id \in store_ids(tickets) : ~Stored(tickets, id).done /\ Stored(tickets, id).done_at = None

(* C5: whenever no sync_now is blocked in a dialog, every ticket of the persisted file
   is in the store with the same done flag and done_at as the file would load. *)
C5_DoneFlagsPersisted ==
    stack = <<>> =>
        \A i \in 1..Len(load_csv(csv_file)) :
            LET id == load_csv(csv_file)[i][1]
                persisted == load_csv(csv_file)[i][2]
            IN  /\ dict_has(tickets, id)
                /\ Stored(tickets, id).done = persisted.done
                /\ Stored(tickets, id).done_at = persisted.done_at

(* a failed cycle has returned after the user marked a ticket done in this run *)
C5_Witness ==
    /\ stack = <<>>
    /\ ev.op = "sync_now_returns"
    /\ \E id \in store_ids(load_csv(csv_file)) :
          /\ Stored(load_csv(csv_file), id).done
          /\ Stored(load_csv(csv_file), id).done_at \in {Some(now) : now \in Times}

(* C6: at no time are two sync_now cycles in progress: no sync_now starts while
   another one is blocked in its dialog. *)
C6_SingleFlight ==
    /\ Len(stack) <= 1
    /\ ev.op = "sync_now" => ev.depth = 0

(* C7: whenever sync_now has returned while sync_running is true, the sync timer is
   armed with max(refresh_minutes, 1) * 60000 ms and next_sync_at is set from the
   same delay; on the success path and on every failure path. *)
C7_RearmedOnReturn ==
    (/\ sync_running
     /\ \/ ev.op = "sync_now" /\ ev.result = "ok"
        \/ ev.op = "sync_now_returns")
    => LET m == get(config, "refresh_minutes", 30)
           delay == (IF m > 1 THEN m ELSE 1) * 60000
       IN  /\ sync_timer = [active |-> TRUE, interval |-> delay]
           /\ next_sync_at = Some(delay)

(* a cycle that failed with an HTTP error has returned while syncing is on, with the
   configured interval below one minute *)
C7_Witness ==
    /\ sync_running
    /\ ev.op = "sync_now_returns"
    /\ ev.result = "http"
    /\ get(config, "refresh_minutes", 30) < 1
    /\ sync_timer = [active |-> TRUE, interval |-> 60000]

(* C8: a failed sync is retried on the next timer tick.  Once a cycle has failed and
   opened its dialog while syncing is on, it returns; and once it has returned while
   syncing is on, the timer starts a further sync_now, unless the user stops syncing
   or saves the configuration dialog first. *)
C8_FailedSyncRetried ==
    /\ (ev.op = "sync_now" /\ ev.result \in {"http", "error"} /\ sync_running)
          ~> (ev.op = "sync_now_returns")
    /\ (ev.op = "sync_now_returns" /\ ev.result \in {"http", "error"} /\ sync_running)
          ~> \/ ev.op = "sync_now" /\ ev.src = "timer"
             \/ ~sync_running
             \/ ev.op = "open_config_dialog"

(* the timer has started a cycle for the second time or later, the user has done
   nothing since the launch, and no cycle has succeeded yet (a successful fetch of
   either configured feed would have left a ticket in the store, or the file): every
   earlier cycle failed, and this one is its retry *)
C8_Witness ==
    /\ ev.op = "sync_now"
    /\ ev.src = "timer"
    /\ ev.depth = 0
    /\ timeouts = 0
    /\ ops = 0
    /\ sync_running
    /\ tickets = <<>>
    /\ ~csv_file.exists

(* C9: a sync cycle that fails does not write the persisted file, neither up to its
   dialog nor when it returns. *)
C9_FailedSyncNeverSaves ==
    [][(\/ ev'.op = "sync_now" /\ ev'.result # "ok"
        \/ ev'.op = "sync_now_returns")
       => csv_file' = csv_file]_vars

(* a cycle has failed after merging a feed: the store is ahead of the file *)
C9_Witness ==
    /\ ev.op = "sync_now"
    /\ ev.result \in {"http", "error"}
    /\ csv_file.exists
    /\ load_csv(csv_file) # load_csv(save_csv(tickets))

(* C10: whenever no sync_now is blocked in a dialog, the persisted file loads to the
   store in memory: the same ticket ids with the same field values, up to the CSV
   encoding. *)
C10_FileMirrorsStore ==
    stack = <<>> => load_csv(csv_file) = load_csv(save_csv(tickets))

(* C11: a manual sync_now issued while syncing is stopped leaves the sync timer stopped
   and sync_running false, when it succeeds and when it returns from its dialog; a
   manual sync_now issued while syncing is on has restarted the timer with the full
   interval when it ends. *)
C11_ManualSync ==
    (/\ ev.src = "manual"
     /\ \/ ev.op = "sync_now" /\ ev.result = "ok"
        \/ ev.op = "sync_now_returns")
    => IF sync_running
       THEN /\ sync_timer = [active |-> TRUE,
                             interval |-> delay_ms(get(config, "refresh_minutes", 30))]
            /\ next_sync_at = Some(delay_ms(get(config, "refresh_minutes", 30)))
       ELSE ~sync_timer.active /\ ~countdown_active

(* a manual cycle has fetched, merged and saved while syncing was stopped *)
C11_Witness ==
    /\ ev.op = "sync_now"
    /\ ev.src = "manual"
    /\ ev.result = "ok"
    /\ ~sync_running
    /\ tickets # <<>>
    /\ csv_file = save_csv(tickets)
    /\ ~sync_timer.active

(* C12: while sync_running is false the sync timer and the countdown timer are
   stopped, stop_sync leaves sync_running false, and no step is a timer-started
   sync_now unless syncing is on; a cycle that ends while syncing is stopped does not
   re-arm the timer. *)
C12_StoppedMeansNoTimer ==
    /\ [](~sync_running => (~sync_timer.active /\ ~countdown_active))
    /\ [](ev.op = "stop_sync" => ~sync_running)
    /\ [][(ev'.op = "sync_now" /\ ev'.src = "timer") => sync_running]_vars

(* the user has stopped syncing after a timer-started cycle ran *)
C12_Witness ==
    /\ ev.op = "stop_sync"
    /\ timeouts = 1
    /\ ~sync_running
    /\ ~sync_timer.active
    /\ ~countdown_active

(* C13: a start_sync that passes its checks sets sync_running, arms the sync timer
   with delay 0 and starts the countdown timer; the only start_sync that no user
   event causes is the first step after construction; and the start/stop button
   calls start_sync exactly when syncing is stopped and stop_sync exactly when it is
   on. *)
C13_StartSync ==
    /\ []((ev.op = "start_sync" /\ ev.result = "started")
            => /\ sync_running
               /\ sync_timer = [active |-> TRUE, interval |-> 0]
               /\ next_sync_at = Some(0)
               /\ countdown_active)
    /\ [][/\ ~launched => (launched' /\ ev'.op = "start_sync")
          /\ (ev'.op = "start_sync" /\ launched) => (~sync_running /\ ops' = ops + 1)
          /\ ev'.op = "stop_sync" => (sync_running /\ ops' = ops + 1)]_vars

(* the start/stop button has started syncing again after the user had stopped it *)
C13_Witness ==
    /\ ev.op = "start_sync"
    /\ ev.result = "started"
    /\ ops = 2
    /\ sync_running
    /\ countdown_active

(* the search strings a feed may be configured with *)
SearchPool == {<<>>, <<" ", ",">>, <<"B", ",", " ">>, <<"x">>, <<"z", ",", " ", "A", "C", " ">>}

(* the non-empty comma-separated terms of a search string, trimmed and lower-cased *)
search_terms(search) ==
    {lower(strip(p)) : p \in {q \in Range(split(search, ",")) : strip(q) # <<>>}}

(* the entry lists the modelled servers answer with *)
FeedLists == UNION {Responses(u) : u \in {<<"urlA">>, <<"urlB">>, <<"urlC">>}}

(* fetch_feed with this search string turns the entry list es into one ticket per
   entry, in order, flagged exactly when a term of the search occurs in the
   lower-cased title or content *)
search_flags_only(search, es) ==
    LET fetched == fetch_feed(es, <<"fa">>, <<"A">>, search) IN
    /\ Len(fetched) = Len(es)
    /\ \A i \in 1..Len(es) :
          /\ fetched[i].ticket_id = extract_ticket_id(es[i], strip(es[i].title))
          /\ fetched[i].updated_on = strip(es[i].updated)
          /\ fetched[i].search_hit
               <=> \E term \in search_terms(search) :
                      \/ contains(lower(es[i].title), term)
                      \/ contains(lower(es[i].content), term)

pool_flags_only == \A search \in SearchPool : \A es \in FeedLists : search_flags_only(search, es)

(* C14: fetch_feed returns exactly one ticket per feed entry, in feed order, and the
   ticket's search_hit is true exactly when some non-empty comma-separated term of
   the search string, trimmed and lower-cased, is a substring of the lower-cased
   entry title or content; for the search strings of SearchPool on every entry
   list, and for the search string of every configured feed on the entry lists its
   url may answer with. *)
C14_SearchFlagsOnly ==
    /\ pool_flags_only
    /\ LET feeds == normalize_feeds(config, <<<<"g1">>, <<"g2">>>>) IN
       \A k \in 1..Len(feeds) : \A es \in Responses(feeds[k].url) :
           search_flags_only(feeds[k].search, es)

(* a cycle has left in the store a ticket flagged by the search term of feed A and a
   ticket that is not flagged *)
C14_Witness ==
    /\ ev.op = "sync_now"
    /\ \E id \in store_ids(tickets) :
          Stored(tickets, id).search_hit /\ Stored(tickets, id).feed_search = <<"B", ",", " ">>
    /\ \E id \in store_ids(tickets) :
          ~Stored(tickets, id).search_hit /\ Stored(tickets, id).updated_on = <<"u1">>

(* the positions of the steps of one kind in the steps of a cycle *)
steps_at(steps, kind) == {i \in 1..Len(steps) : steps[i].step = kind}

(* the <<ticket id, updated_on>> pairs of the entries the feeds answered with *)
fetched_pairs(outcomes) ==
    UNION {{<<extract_ticket_id(e, strip(e.title)), strip(e.updated)>> : e \in Range(outcomes[j].entries)} :
             j \in {k \in DOMAIN outcomes : outcomes[k].kind = "ok"}}

(* C15: in every cycle the configured feeds can cause from a reachable state, the
   detail fetch runs at most once, only with enable_api_details true, only after
   every feed was fetched and merged, and only for tickets that were not in the
   store before the cycle or for which a fetched entry carries an updated_on other
   than the stored one. *)
C15_DetailFetchOnlyForChanges ==
    LET feeds == normalize_feeds(config, <<<<"g1">>, <<"g2">>>>) IN
    \A outcomes \in (IF feeds = <<>> THEN {} ELSE OutcomeSeqs(feeds, FALSE)) :
        LET r == _sync_feeds(tickets, config, feeds, outcomes, NoDetails)
            det == steps_at(r.steps, "details")
        IN  /\ Cardinality(det) <= 1
            /\ \A i \in det :
                  /\ get(config, "enable_api_details", FALSE)
                  /\ Cardinality(steps_at(r.steps, "merge")) = Len(feeds)
                  /\ \A j \in steps_at(r.steps, "fetch") \cup steps_at(r.steps, "merge") : j < i
                  /\ \A id \in r.steps[i].ids :
                        /\ \E pair \in fetched_pairs(outcomes) : pair[1] = id
                        /\ \/ ~dict_has(tickets, id)
                           \/ \E pair \in fetched_pairs(outcomes) :
                                 pair[1] = id /\ pair[2] # Stored(tickets, id).updated_on

(* a cycle has fetched the details of one ticket and not of another ticket that it
   merged with an unchanged updated_on *)
C15_Witness ==
    /\ ev.op = "sync_now"
    /\ ev.result = "ok"
    /\ \E i \in steps_at(ev.steps, "details") :
          /\ ev.steps[i].ids # {}
          /\ \E id \in ev.merged : id \notin ev.steps[i].ids

(* C16: in every cycle the configured feeds can cause from a reachable state, the
   change notification is shown at most once, only with a tray icon, only when
   the cycle's new plus updated tickets are more than zero, only when no fetch
   failed, and only after every feed was merged and save_csv was called; and the
   cycle that last ran shows it that way. *)
C16_NotifyOnceAfterSave ==
    LET feeds == normalize_feeds(config, <<<<"g1">>, <<"g2">>>>)
        notified_well(steps, ok, changes) ==
            /\ Cardinality(steps_at(steps, "notify")) <= 1
            /\ \A i \in steps_at(steps, "notify") :
                  /\ tray
                  /\ ok
                  /\ changes
                  /\ Cardinality(steps_at(steps, "merge")) = Len(feeds)
                  /\ \A j \in steps_at(steps, "fetch") \cup steps_at(steps, "merge")
                               \cup steps_at(steps, "details") : j < i
                  /\ \E j \in steps_at(steps, "save_csv") : j < i
                  /\ steps_at(steps, "dialog") = {}
    IN  /\ \A outcomes \in (IF feeds = <<>> THEN {} ELSE OutcomeSeqs(feeds, FALSE)) :
            LET r == _sync_feeds(tickets, config, feeds, outcomes, NoDetails)
            IN  notified_well(r.steps \o steps_after(r, tray), r.raised = "",
                              r.total_new + r.total_updated > 0)
        /\ ev.op = "sync_now" => notified_well(ev.steps, ev.result = "ok", TRUE)

(* a cycle has shown the change notification as its last step, after save_csv *)
C16_Witness ==
    /\ ev.op = "sync_now"
    /\ ev.result = "ok"
    /\ tray
    /\ Len(ev.steps) >= 4
    /\ ev.steps[Len(ev.steps)].step = "notify"
    /\ ev.steps[Len(ev.steps) - 2].step = "save_csv"
    /\ csv_file = save_csv(tickets)

(* the feeds of the configuration as the dialog stores them, search_custom included *)
configured_feeds == get(config, "feeds", <<>>)

(* C17: after a successful cycle, every ticket the cycle merged from a configured
   feed whose search_custom is non-empty carries that value as feed_search_custom. *)
C17_SearchCustomReachesTickets ==
    (ev.op = "sync_now" /\ ev.result = "ok")
    => \A k \in DOMAIN configured_feeds :
         LET f == configured_feeds[k] IN
         (Truthy(get(f, "search_custom", <<>>)) /\ Truthy(get(f, "id", <<>>)))
         => \A id \in ev.merged :
              Stored(tickets, id).feed_id = get(f, "id", <<>>)
              => Stored(tickets, id).feed_search_custom = get(f, "search_custom", <<>>)

(* the kinds of the steps of a cycle, in order *)
step_kinds(steps) == [i \in 1..Len(steps) |-> steps[i].step]

(* C18: the steps of a successful cycle are: fetch and merge of each configured
   feed in configuration order, then at most one detail enrichment, then exactly
   one save_csv, then the status update, then at most one notification; no save_csv
   stands between two merges, and the file is the image of the merged store. *)
C18_StepOrder ==
    (ev.op = "sync_now" /\ ev.result = "ok")
    => LET feeds == normalize_feeds(config, <<<<"g1">>, <<"g2">>>>)
           n == Len(feeds)
           rest == SubSeq(ev.steps, 2 * n + 1, Len(ev.steps))
           tail == IF rest # <<>> /\ rest[1].step = "details" THEN Tail(rest) ELSE rest
       IN  /\ Len(ev.steps) >= 2 * n + 2
           /\ \A k \in 1..n :
                 /\ ev.steps[2 * k - 1].step = "fetch"
                 /\ ev.steps[2 * k].step = "merge"
                 /\ ev.steps[2 * k - 1].feed = ev.steps[2 * k].feed
                 /\ IF feeds[k].id \in Uuids THEN ev.steps[2 * k].feed \in Uuids
                    ELSE ev.steps[2 * k].feed = feeds[k].id
           /\ step_kinds(tail) \in {<<"save_csv", "status">>, <<"save_csv", "status", "notify">>}
           /\ Cardinality(steps_at(ev.steps, "save_csv")) = 1
           /\ \A i \in steps_at(ev.steps, "save_csv"), j \in steps_at(ev.steps, "merge") : j < i
           /\ csv_file = save_csv(tickets)

(* a successful cycle of two feeds with detail enrichment and a notification *)
C18_Witness ==
    /\ ev.op = "sync_now"
    /\ ev.result = "ok"
    /\ step_kinds(ev.steps) = <<"fetch", "merge", "fetch", "merge", "details", "save_csv",
                                "status", "notify">>
    /\ ev.steps[2].feed = <<"fa">>
    /\ ev.steps[4].feed = <<"fb">>

(* the match of _update_details on the details a ticket holds: a search term of its
   feed occurs in its description or in one of its targeted custom fields *)
detail_hit(t) ==
    LET terms == _split_terms(t.feed_search)
        custom_targets == _split_terms(t.feed_search_custom)
        cf == IF t.custom_fields = None THEN <<>> ELSE t.custom_fields[1]
    IN  /\ terms # <<>>
        /\ \/ any_term_in(terms, lower(t.description))
           \/ \E i \in 1..Len(custom_targets) :
                 any_term_in(terms, lower(dict_get(cf, custom_targets[i], <<>>)))

(* C19: a ticket whose search_hit is true by a match in its fetched details still
   has search_hit true after a sync cycle whose feeds report it with the stored
   updated_on. *)
C19_EnrichedHitKept ==
    [][ev'.op = "sync_now"
       => \A id \in ev'.merged :
            (/\ dict_has(tickets, id)
             /\ Stored(tickets, id).search_hit
             /\ detail_hit(Stored(tickets, id))
             /\ Stored(tickets', id).updated_on = Stored(tickets, id).updated_on)
            => Stored(tickets', id).search_hit]_vars

(* C20: for every reachable store, every set of ticket ids and every answer of
   fetch_issue_details, _update_details keeps the tickets and their order, never
   turns search_hit from true to false, changes due_date only to a non-empty
   fetched value, changes description and custom_fields only to a fetched value
   that is present, and leaves every other field (done, done_at, subject, status,
   updated_on among them) as it was. *)
C20_UpdateDetailsNeverDegrades ==
    \A ids \in SUBSET TicketIds, d \in DetailPool :
        LET after == _update_details(tickets, ids, [t \in TicketIds |-> d]) IN
        /\ Len(after) = Len(tickets)
        /\ \A i \in 1..Len(tickets) :
              LET b == tickets[i][2]
                  a == after[i][2]
                  fetched == tickets[i][1] \in ids /\ ~d.raises
              IN  /\ after[i][1] = tickets[i][1]
                  /\ b.search_hit => a.search_hit
                  /\ a.due_date # b.due_date
                       => fetched /\ d.due_date # <<>> /\ a.due_date = d.due_date
                  /\ a.description # b.description
                       => fetched /\ d.description # None /\ a.description = d.description[1]
                  /\ a.custom_fields # b.custom_fields
                       => fetched /\ d.custom_fields # None /\ a.custom_fields = d.custom_fields
                  /\ [a EXCEPT !.search_hit = b.search_hit, !.due_date = b.due_date,
                                !.description = b.description,
                                !.custom_fields = b.custom_fields] = b

(* a cycle has fetched the details of a done ticket with a search hit and a due
   date: the ticket is still done and a hit, and an answer without a due date or
   a match would have to leave both *)
C20_Witness ==
    /\ ev.op = "sync_now"
    /\ \E i \in steps_at(ev.steps, "details") :
          \E id \in ev.steps[i].ids :
             /\ Stored(tickets, id).done
             /\ Stored(tickets, id).search_hit
             /\ Stored(tickets, id).due_date = <<"d1">>
             /\ Stored(tickets, id).description = <<"a", "B">>

(* C21: a refetch_pending_api step with api details disabled, with no usable api
   key, or with no ticket that is open and has a url, changes neither the store
   nor the file; every other refetch_pending_api step keeps the tickets and their
   order, leaves every ticket that is done or has no url as it was, and writes
   the resulting store to the file. *)
C21_RefetchOnlyPending ==
    [][ev'.op = "refetch_pending_api"
       => IF \/ ~get(config, "enable_api_details", FALSE)
             \/ get(config, "api_key", <<>>) \in {<<>>, PLACEHOLDER_KEY}
             \/ \A i \in 1..Len(tickets) : tickets[i][2].done \/ tickets[i][2].url = <<>>
          THEN tickets' = tickets /\ csv_file' = csv_file
          ELSE /\ Len(tickets') = Len(tickets)
               /\ \A i \in 1..Len(tickets) :
                     /\ tickets'[i][1] = tickets[i][1]
                     /\ (tickets[i][2].done \/ tickets[i][2].url = <<>>) => tickets'[i] = tickets[i]
               /\ csv_file' = save_csv(tickets')]_vars

(* refetch_pending_api has enriched an open ticket and saved, with a done ticket in
   the store *)
C21_Witness ==
    /\ ev.op = "refetch_pending_api"
    /\ ev.result = "saved"
    /\ csv_file = save_csv(tickets)
    /\ \E id \in store_ids(tickets) : Stored(tickets, id).done
    /\ \E id \in store_ids(tickets) :
          ~Stored(tickets, id).done /\ Stored(tickets, id).due_date = <<"d1">>

(* the configuration names no feed: no entry of feeds has a url or feed_url, and
   there is no legacy feed_url *)
no_feed_configured(cfg) ==
    /\ \A i \in 1..Len(get(cfg, "feeds", <<>>)) :
          get(cfg.feeds[i], "url", <<>>) = <<>> /\ get(cfg.feeds[i], "feed_url", <<>>) = <<>>
    /\ get(cfg, "feed_url", <<>>) = <<>>

(* C22: a start_sync step taken with an empty or placeholder api key, or with no
   feed configured, leaves sync_running false, both timers stopped, and the store
   and the file as they were. *)
C22_StartSyncRefuses ==
    [][(/\ ev'.op = "start_sync"
        /\ \/ get(config, "api_key", <<>>) \in {<<>>, <<"PUT_YOUR_API_KEY">>}
           \/ no_feed_configured(config))
       => /\ ~sync_running'
          /\ ~sync_timer'.active
          /\ ~countdown_active'
          /\ tickets' = tickets
          /\ csv_file' = csv_file]_vars

(* the start button was pressed with tickets in the store and start_sync refused *)
C22_Witness ==
    /\ ev.op = "start_sync"
    /\ ev.result = "refused"
    /\ ops >= 1
    /\ tickets # <<>>
    /\ ~sync_running
    /\ ~sync_timer.active

(* the earlier entries of the fetched list with the id of entry i *)
earlier(fetched, i) == {j \in 1..(i - 1) : fetched[j].ticket_id = fetched[i].ticket_id}

(* entry i finds no ticket of its id: none was stored and no earlier entry brought one *)
counts_new(tks, fetched, i) ==
    ~dict_has(tks, fetched[i].ticket_id) /\ earlier(fetched, i) = {}

(* entry i finds a ticket of its id whose updated_on is another one: that of the
   latest earlier entry of the id, or else that of the stored ticket *)
counts_updated(tks, fetched, i) ==
    IF earlier(fetched, i) # {}
    THEN fetched[Max(earlier(fetched, i))].updated_on # fetched[i].updated_on
    ELSE dict_has(tks, fetched[i].ticket_id)
         /\ Stored(tks, fetched[i].ticket_id).updated_on # fetched[i].updated_on

(* C23: for every call of merge_tickets the feeds can cause on a reachable store,
   the store grows by exactly new_cnt tickets, updated_cnt is the number of
   entries that found their id stored with another updated_on, and the detail
   targets are exactly the ids of the entries counted as new or as updated. *)
C23_MergeCountersExact ==
    \A call \in MergeCalls :
        LET r == merge_tickets(tickets, call.fetched, call.feed_search_custom)
            n == 1..Len(call.fetched)
            new == {i \in n : counts_new(tickets, call.fetched, i)}
            updated == {i \in n : counts_updated(tickets, call.fetched, i)}
        IN  /\ Len(r.tickets) = Len(tickets) + r.new_cnt
            /\ r.new_cnt = Cardinality(new)
            /\ r.updated_cnt = Cardinality(updated)
            /\ r.detail_targets = {call.fetched[i].ticket_id : i \in new \cup updated}

(* a cycle has merged a list with an entry that updated a stored ticket and an
   entry that was new, and fetched the details of both *)
C23_Witness ==
    /\ ev.op = "sync_now"
    /\ ev.result = "ok"
    /\ ev.merged = {<<"1">>}
    /\ store_ids(tickets) = {<<"1">>, <<"2">>}
    /\ \E i \in steps_at(ev.steps, "details") : ev.steps[i].ids = {<<"1">>, <<"2">>}

(* the ids of the feeds the configuration names *)
configured_feed_ids == {configured_feeds[k].id : k \in {j \in DOMAIN configured_feeds : "id" \in DOMAIN configured_feeds[j]}}

(* C24: no step removes a ticket id from the store, and the tickets keep their
   order. *)
C24_StoreOnlyGrows ==
    [][/\ Len(tickets') >= Len(tickets)
       /\ \A i \in 1..Len(tickets) : tickets'[i][1] = tickets[i][1]]_vars

(* after the user deleted a feed in the configuration dialog, a successful cycle of
   the remaining feeds has left in the store a ticket of the deleted feed that no
   feed returned *)
C24_Witness ==
    /\ ev.op = "sync_now"
    /\ ev.result = "ok"
    /\ configured_feed_ids = {<<"fb">>}
    /\ steps_at(ev.steps, "merge") # {}
    /\ \E id \in store_ids(tickets) \ ev.merged : Stored(tickets, id).feed_id = <<"fa">>

(* C25: in every reachable state every ticket has a done_at exactly when it is
   done; a ticket a step adds to the store is not done and has no done_at; and a
   step that is not a toggle or set_done leaves done and done_at of every stored
   ticket as they were. *)
C25_DoneAtIffDone ==
    /\ [](\A i \in 1..Len(tickets) : tickets[i][2].done <=> tickets[i][2].done_at # None)
    /\ [][/\ \A i \in (Len(tickets) + 1)..Len(tickets') :
                ~tickets'[i][2].done /\ tickets'[i][2].done_at = None
          /\ ev'.op \notin {"toggle_done_one", "toggle_selected", "set_done"}
               => \A i \in 1..Len(tickets) :
                     /\ tickets'[i][2].done = tickets[i][2].done
                     /\ tickets'[i][2].done_at = tickets[i][2].done_at]_vars

(* the toggle button has reopened a done ticket and closed an open one: the first
   has lost its done_at, the second carries the time of the toggle *)
C25_Witness ==
    /\ ev.op = "toggle_selected"
    /\ ev.result = "saved"
    /\ \E id \in store_ids(tickets) :
          ~Stored(tickets, id).done /\ Stored(tickets, id).done_at = None
    /\ \E id \in store_ids(tickets) :
          Stored(tickets, id).done /\ Stored(tickets, id).done_at = Some(<<"t", "1">>)

(* C26: on every reachable store, for every ticket id and times: set_done on a done
   ticket changes nothing and saves nothing, and so does a second set_done after a
   first; two toggle_done_one calls in a row give every ticket the done value it
   had; and both handlers change nothing and save nothing for an id the store
   does not hold. *)
C26_SetDoneIdempotentToggleInvolution ==
    \A id \in TicketIds, now1 \in Times, now2 \in Times :
        LET s1 == set_done_result(tickets, id, now1)
            s2 == set_done_result(s1.tickets, id, now2)
            t1 == toggle_done_one_result(tickets, id, now1)
            t2 == toggle_done_one_result(t1.tickets, id, now2)
        IN  /\ s2.tickets = s1.tickets /\ ~s2.saved
            /\ (dict_has(tickets, id) /\ Stored(tickets, id).done)
                 => (s1.tickets = tickets /\ ~s1.saved)
            /\ Len(t2.tickets) = Len(tickets)
            /\ \A i \in 1..Len(tickets) :
                  /\ t2.tickets[i][1] = tickets[i][1]
                  /\ t2.tickets[i][2].done = tickets[i][2].done
            /\ dict_has(tickets, id) => (t1.saved /\ Stored(t1.tickets, id).done # Stored(tickets, id).done)
            /\ ~dict_has(tickets, id)
                 => /\ s1.tickets = tickets /\ ~s1.saved
                    /\ t1.tickets = tickets /\ ~t1.saved

(* set_done was called for a ticket of a store that holds every id, and did
   nothing: the ticket was done and has kept the done_at of the file *)
C26_Witness ==
    /\ ev.op = "set_done"
    /\ ev.result = "nothing"
    /\ store_ids(tickets) = TicketIds
    /\ \E id \in store_ids(tickets) : Stored(tickets, id).done_at = Some(<<"t", "0">>)
    /\ \A id \in store_ids(tickets) : Stored(tickets, id).done => Stored(tickets, id).done_at = Some(<<"t", "0">>)

(* C27: for every call of merge_tickets the feeds can cause on a reachable store,
   merging the same fetched list with the same search_custom a second time
   reports no new ticket, no updated ticket and no detail target, and leaves the
   store as the first merge left it. *)
C27_MergeIdempotent ==
    \A call \in MergeCalls :
        LET r1 == merge_tickets(tickets, call.fetched, call.feed_search_custom)
            r2 == merge_tickets(r1.tickets, call.fetched, call.feed_search_custom)
        IN  /\ r2.new_cnt = 0
            /\ r2.updated_cnt = 0
            /\ r2.detail_targets = {}
            /\ r2.tickets = r1.tickets

(* answers of fetch_issue_details of which one raises *)
FailingDetailMaps ==
    {[t \in TicketIds |-> IF t = bad THEN DetailRaises ELSE DetailFull] : bad \in TicketIds}

(* C28: on every reachable store, when fetch_issue_details raises for one target,
   every other target gets from _update_details what it gets when it is the only
   target, and the ticket of the failure stays as it was; and every cycle that
   reached the detail fetch has ended successfully, with save_csv called after it
   and the file holding the store. *)
C28_DetailFailureIsolated ==
    /\ \A ids \in SUBSET TicketIds, details \in FailingDetailMaps :
          LET after == _update_details(tickets, ids, details) IN
          /\ Len(after) = Len(tickets)
          /\ \A i \in 1..Len(tickets) :
                IF tickets[i][1] \in ids /\ ~details[tickets[i][1]].raises
                THEN after[i] = _update_details(tickets, {tickets[i][1]},
                                                [t \in TicketIds |-> DetailFull])[i]
                ELSE after[i] = tickets[i]
    /\ (ev.op = "sync_now" /\ steps_at(ev.steps, "details") # {})
         => /\ ev.result = "ok"
            /\ \A i \in steps_at(ev.steps, "details") :
                  \E j \in steps_at(ev.steps, "save_csv") : i < j
            /\ csv_file = save_csv(tickets)

(* a cycle has fetched the details of two tickets: the fetch of ticket 1 raised and
   left it without details, ticket 2 has the fetched due date, and the cycle has
   saved *)
C28_Witness ==
    /\ ev.op = "sync_now"
    /\ ev.result = "ok"
    /\ \E i \in steps_at(ev.steps, "details") : ev.steps[i].ids = {<<"1">>, <<"2">>}
    /\ Stored(tickets, <<"1">>).due_date = <<>>
    /\ Stored(tickets, <<"1">>).description = <<>>
    /\ Stored(tickets, <<"2">>).due_date = <<"d1">>
    /\ csv_file = save_csv(tickets)

(* a configuration of the legacy form: a single feed_url and no feeds list *)
CfgLegacy == [api_key |-> <<"k">>, refresh_minutes |-> 30, feed_url |-> <<"urlA">>]

(* C29: for the loaded configuration of every reachable state, and for a legacy
   feed_url configuration, any two calls of normalize_feeds yield the same feeds
   with the same ids, whatever ids generate_feed_id draws. *)
C29_FeedIdsStable ==
    \A cfg \in {config, CfgLegacy} : \A first \in UuidSupplies, second \in UuidSupplies :
        LET a == normalize_feeds(cfg, first)
            b == normalize_feeds(cfg, second)
        IN  /\ Len(a) = Len(b)
            /\ \A k \in 1..Len(a) : a[k].id = b[k].id

====
